---- MODULE Spec2Model ----
(***************************************************************************)
(* Model of the email classifier (src/app/models.py, EmailClassifier) and  *)
(* of the /analyze request handler (src/app/routes.py).                    *)
(*                                                                         *)
(* Texts are TLA+ strings; SubSeq(s, i, i) is the i-th character.  Only    *)
(* ASCII text is modelled.                                                 *)
(*                                                                         *)
(* Scores are Python floats in the source.  Here they are exact fixed-     *)
(* point numbers in units of 1/ONE (ONE = 400): every keyword, pattern and *)
(* context score, and every blended score, is a whole number of such       *)
(* units.  Normalized scores are the fractions num[c] / den.  Where two    *)
(* exact values coincide (two categories with the same score, a confidence *)
(* exactly on a threshold, a percentage exactly halfway between two        *)
(* roundings) the doubles of the source can differ in their last bit and   *)
(* fall on either side; the exact value is what is modelled.               *)
(***************************************************************************)
EXTENDS Integers, Sequences, FiniteSets, TLC

VARIABLES
    categories,      \* self.categories: category -> [keywords, weight]
    patterns,        \* self.patterns: pattern name -> regular expression
    pc,              \* per handler: position in routes.analyze_email / analyze_email
    data,            \* per handler: request.get_json() of the request in flight
    email_text,      \* per handler: argument of EmailClassifier.analyze_email
    features,        \* per handler: local of analyze_email
    keyword_scores,  \* per handler: local of analyze_email
    pattern_scores,  \* per handler: local of analyze_email
    context_scores,  \* per handler: local of analyze_email
    final_scores,    \* per handler: local of analyze_email
    primary,         \* per handler: primary_category and confidence
    indicators,      \* per handler: local of analyze_email
    result,          \* per handler: value returned by analyze_email
    response,        \* per handler: HTTP reply of the /analyze route
    ran,             \* per handler: components invoked for the call in flight
    probe            \* inputs and outputs of a direct _assess_risk call

vars == <<categories, patterns, pc, data, email_text, features, keyword_scores,
          pattern_scores, context_scores, final_scores, primary, indicators,
          result, response, ran, probe>>

-----------------------------------------------------------------------------
(* Bounds of the model *)

\* Number of request handlers that may run analyze_email at the same time.
NumHandlers == 2

\* Largest number of vocabulary fragments joined into one input text.
MaxFrags == 2

-----------------------------------------------------------------------------
(* Characters and strings *)

UPPER == "ABCDEFGHIJKLMNOPQRSTUVWXYZ"
LOWER == "abcdefghijklmnopqrstuvwxyz"
DIGITS == "0123456789"

CharsOf(s) == {SubSeq(s, i, i) : i \in 1..Len(s)}

UpperSet == CharsOf(UPPER)
LowerSet == CharsOf(LOWER)
DigitSet == CharsOf(DIGITS)

\* str.isspace for the ASCII whitespace used in the inputs
SpaceSet == {" ", "\n", "\t"}

\* \w of the re module (ASCII): letters, digits, underscore
WordSet == UpperSet \cup LowerSet \cup DigitSet \cup {"_"}

At(s, i) == IF i >= 1 /\ i <= Len(s) THEN SubSeq(s, i, i) ELSE ""

IsSpace(c) == c \in SpaceSet
IsWordChar(c) == c \in WordSet
IsUpper(c) == c \in UpperSet
IsLetter(c) == c \in UpperSet \cup LowerSet
IsDigit(c) == c \in DigitSet

lowerOf == [c \in UpperSet |->
              LET i == CHOOSE j \in 1..Len(UPPER) : SubSeq(UPPER, j, j) = c
              IN  SubSeq(LOWER, i, i)]

LowerChar(c) == IF c \in UpperSet THEN lowerOf[c] ELSE c

\* the characters lo..hi of s, lower-cased (halving keeps the recursion shallow)
RECURSIVE LowerRange(_, _, _)
LowerRange(s, lo, hi) ==
    IF lo > hi THEN ""
    ELSE IF lo = hi THEN LowerChar(SubSeq(s, lo, lo))
    ELSE LET mid == (lo + hi) \div 2
         IN  LowerRange(s, lo, mid) \o LowerRange(s, mid + 1, hi)

\* str.lower()
Lower(s) == LowerRange(s, 1, Len(s))

\* the least element of a non-empty set of integers
Least(S) == CHOOSE x \in S : \A y \in S : x <= y

\* s[i:i+len(k)] == k
MatchAt(s, k, i) == i >= 1 /\ i + Len(k) - 1 <= Len(s) /\ SubSeq(s, i, i + Len(k) - 1) = k

\* k in s
Contains(s, k) == \E i \in 1..(Len(s) - Len(k) + 1) : MatchAt(s, k, i)

\* occurrences of k in s[i:], each search resuming behind the occurrence found
RECURSIVE CountFrom(_, _, _)
CountFrom(s, k, i) ==
    LET found == {p \in i..(Len(s) - Len(k) + 1) : MatchAt(s, k, p)}
    IN  IF found = {} THEN 0 ELSE 1 + CountFrom(s, k, Least(found) + Len(k))

\* s.count(k): non-overlapping occurrences, scanned left to right
Count(s, k) == CountFrom(s, k, 1)

\* str.strip()
Strip(s) ==
    LET kept == {i \in 1..Len(s) : ~IsSpace(SubSeq(s, i, i))}
    IN  IF kept = {} THEN ""
        ELSE SubSeq(s, Least(kept), CHOOSE i \in kept : \A j \in kept : j <= i)

\* position i starts a maximal run of non-whitespace characters
WordStart(s, i) == ~IsSpace(At(s, i)) /\ (i = 1 \/ IsSpace(At(s, i - 1)))

\* len(text.split())
WordCount(s) == Cardinality({i \in 1..Len(s) : WordStart(s, i)})

\* the characters lo..hi of s with each run of whitespace replaced by one space
RECURSIVE CollapseRange(_, _, _)
CollapseRange(s, lo, hi) ==
    IF lo > hi THEN ""
    ELSE IF lo = hi
         THEN (IF ~IsSpace(SubSeq(s, lo, lo)) THEN SubSeq(s, lo, lo)
               ELSE IF lo > 1 /\ IsSpace(SubSeq(s, lo - 1, lo - 1)) THEN "" ELSE " ")
    ELSE LET mid == (lo + hi) \div 2
         IN  CollapseRange(s, lo, mid) \o CollapseRange(s, mid + 1, hi)

\* re.sub(r'\s+', ' ', s)
CollapseSpaces(s) == CollapseRange(s, 1, Len(s))

\* _clean_text
clean_text(text) == Strip(CollapseSpaces(Lower(text)))

-----------------------------------------------------------------------------
(* The static tables built by EmailClassifier.__init__ *)

\* the keys of self.categories, in declaration (dict iteration) order
CategoryOrder == <<"spam", "not_spam", "promotional", "phishing", "newsletter", "social">>

Categories == {CategoryOrder[i] : i \in 1..Len(CategoryOrder)}

\* self.categories; weight is held in tenths (3.0 is 30)
InitCategories ==
    [spam |->
        [keywords |-> <<"free", "money", "cash", "winner", "lottery", "congratulations",
                        "urgent", "act now", "limited time", "guaranteed", "bonus",
                        "win", "prize", "claim", "inheritance", "million", "dollars",
                        "viagra", "pills", "weight loss", "make money fast", "earn money">>,
         weight |-> 30],
     not_spam |->
        [keywords |-> <<"meeting", "schedule", "regards", "best", "thank you", "please",
                        "project", "work", "team", "update", "sincerely", "business",
                        "attached", "report", "deadline", "conference", "colleague">>,
         weight |-> 10],
     promotional |->
        [keywords |-> <<"sale", "discount", "offer", "promotion", "coupon", "save",
                        "special", "exclusive", "deal", "shop now", "buy", "store",
                        "black friday", "cyber monday", "clearance", "markdown">>,
         weight |-> 20],
     phishing |->
        [keywords |-> <<"verify account", "suspended", "security alert", "update payment",
                        "confirm identity", "account locked", "expires today",
                        "click here immediately", "immediate action", "suspended account",
                        "security breach", "verify now", "update billing", "confirm details">>,
         weight |-> 40],
     newsletter |->
        [keywords |-> <<"newsletter", "subscribe", "unsubscribe", "monthly", "weekly",
                        "updates", "news", "insights", "industry", "publication", "digest",
                        "edition", "issue", "article", "blog post">>,
         weight |-> 10],
     social |->
        [keywords |-> <<"friend request", "notification", "tagged", "liked", "shared",
                        "comment", "follow", "connect", "facebook", "instagram", "twitter",
                        "linkedin", "social media", "profile", "post">>,
         weight |-> 15]]

\* the regular expressions of self.patterns, as written in the source
RE_money_amounts == "\\$\\d{1,3}(?:,\\d{3})*(?:\\.\\d{2})?"
RE_percentages == "\\d+%\\s*(?:off|discount|save)"
RE_urgency == "\\b(?:urgent|immediate|expires?|hurry|act now|limited time|final notice)\\b"
RE_caps_words == "\\b[A-Z]{4,}\\b"
RE_multiple_exclamation == "!{2,}"
RE_suspicious_phrases == "\\b(?:click here|act now|limited time|expires today|verify now)\\b"
RE_business_formal == "\\b(?:dear|sincerely|regards|meeting|schedule|attached)\\b"
RE_social_words == "\\b(?:like|share|follow|friend|connect|tag)\\b"
RE_url == "https?://\\S+|www\\.\\S+"
RE_http_url == "https?://\\S+"

\* self.patterns
InitPatterns ==
    [money_amounts |-> RE_money_amounts,
     percentages |-> RE_percentages,
     urgency |-> RE_urgency,
     caps_words |-> RE_caps_words,
     multiple_exclamation |-> RE_multiple_exclamation,
     suspicious_phrases |-> RE_suspicious_phrases,
     business_formal |-> RE_business_formal,
     social_words |-> RE_social_words]

-----------------------------------------------------------------------------
(* Regular expression matching, one matcher per expression of the source *)

\* the alternatives of a \b(?:a|b|...)\b expression ("expires?" is two)
Alternatives(re) ==
    CASE re = RE_urgency ->
           {"urgent", "immediate", "expire", "expires", "hurry", "act now",
            "limited time", "final notice"}
      [] re = RE_suspicious_phrases ->
           {"click here", "act now", "limited time", "expires today", "verify now"}
      [] re = RE_business_formal ->
           {"dear", "sincerely", "regards", "meeting", "schedule", "attached"}
      [] re = RE_social_words ->
           {"like", "share", "follow", "friend", "connect", "tag"}
      [] OTHER -> {}

\* \b at the gap before character i: exactly one neighbour is a word character
Boundary(s, i) == IsWordChar(At(s, i - 1)) # IsWordChar(At(s, i))

\* \b(?:alt)\b matches at i
WordMatchAt(s, alt, i) ==
    MatchAt(s, alt, i) /\ Boundary(s, i) /\ Boundary(s, i + Len(alt))

\* \$\d{1,3}(...)*(...)? matches at i: a dollar sign and a digit; the rest is optional
MoneyAt(s, i) == At(s, i) = "$" /\ IsDigit(At(s, i + 1))

\* end (exclusive) of the run of [A-Z] characters from i ([A-Za-z] under re.IGNORECASE)
CapsRunEnd(s, i, ignorecase) ==
    Least({j \in i..(Len(s) + 1) :
             ~(IF ignorecase THEN IsLetter(At(s, j)) ELSE IsUpper(At(s, j)))})

\* \b[A-Z]{4,}\b matches at i: i starts a \w-run, four or more [A-Z] follow, and
\* the run of [A-Z] ends at a word boundary (a shorter match would end inside the run,
\* between two word characters)
CapsWordAt(s, i, ignorecase) ==
    LET e == CapsRunEnd(s, i, ignorecase)
    IN  /\ ~IsWordChar(At(s, i - 1))
        /\ e >= i + 4
        /\ ~IsWordChar(At(s, e))

\* end (exclusive) of the run of non-whitespace characters from i
NonSpaceEnd(s, i) ==
    IF i > Len(s) THEN i
    ELSE Least({j \in i..(Len(s) + 1) : j > Len(s) \/ IsSpace(At(s, j))})

\* https?://\S+ matches at i: returns the end (exclusive) of the match, 0 if none
HttpUrlAt(s, i) ==
    LET p == IF MatchAt(s, "https://", i) /\ NonSpaceEnd(s, i + 8) > i + 8 THEN i + 8
             ELSE IF MatchAt(s, "http://", i) /\ NonSpaceEnd(s, i + 7) > i + 7 THEN i + 7
             ELSE 0
    IN  IF p = 0 THEN 0 ELSE NonSpaceEnd(s, p)

\* https?://\S+|www\.\S+ matches at i: the end (exclusive) of the match, 0 if none
UrlAt(s, i) ==
    IF HttpUrlAt(s, i) # 0 THEN HttpUrlAt(s, i)
    ELSE IF MatchAt(s, "www.", i) /\ NonSpaceEnd(s, i + 4) > i + 4 THEN NonSpaceEnd(s, i + 4)
    ELSE 0

\* re.search(re, s) is not None; s is already lower-cased when the caller lower-cased
\* it, and re.IGNORECASE is modelled by lower-casing s for the word expressions
re_search(re, s, ignorecase) ==
    CASE re = RE_money_amounts -> \E i \in 1..Len(s) : MoneyAt(s, i)
      [] re = RE_multiple_exclamation -> \E i \in 1..Len(s) : MatchAt(s, "!!", i)
      [] re = RE_caps_words -> \E i \in 1..Len(s) : CapsWordAt(s, i, ignorecase)
      [] re \in {RE_urgency, RE_suspicious_phrases, RE_business_formal, RE_social_words} ->
           LET t == IF ignorecase THEN Lower(s) ELSE s
           IN  \E alt \in Alternatives(re) :
                 \E i \in 1..Len(t) : WordMatchAt(t, alt, i)
      [] OTHER -> FALSE

\* end (exclusive) of the match of re at i, 0 if there is none; a money amount is
\* followed up to its first digit only, no later match can begin inside its remainder
MatchEnd(re, s, i) ==
    CASE re = RE_money_amounts -> IF MoneyAt(s, i) THEN i + 2 ELSE 0
      [] re = RE_url -> UrlAt(s, i)
      [] re = RE_http_url -> HttpUrlAt(s, i)
      [] OTHER -> 0

\* matches of re in s[i:], each search resuming where the match found ends
RECURSIVE FindallFrom(_, _, _)
FindallFrom(re, s, i) ==
    LET found == {p \in i..Len(s) : MatchEnd(re, s, p) # 0}
    IN  IF found = {} THEN 0
        ELSE 1 + FindallFrom(re, s, MatchEnd(re, s, Least(found)))

\* len(re.findall(re, s)): non-overlapping matches, leftmost first
findall_count(re, s) == FindallFrom(re, s, 1)

-----------------------------------------------------------------------------
(* Fixed-point numbers *)

\* the score 1.0
ONE == 400

\* n/10 as a score: Tenths(4) is 0.4
Tenths(n) == n * (ONE \div 10)

\* a Python float held as the fraction num/den
Frac(n, d) == [num |-> n, den |-> d]

\* round(num/den) to the nearest integer, ties to even (Python's round)
RoundHalfEven(n, d) ==
    LET q == n \div d
        r == n % d
    IN  IF 2 * r < d THEN q
        ELSE IF 2 * r > d THEN q + 1
        ELSE IF q % 2 = 0 THEN q ELSE q + 1

RECURSIVE SumOver(_, _)
SumOver(f, S) ==
    IF S = {} THEN 0
    ELSE LET c == CHOOSE x \in S : TRUE IN f[c] + SumOver(f, S \ {c})

\* a dict as the model holds it: its keys in iteration order, the numerators of its
\* values and their common denominator
ScoreMap(ks, n, d) == [keys |-> ks, num |-> n, den |-> d]

\* {}
EmptyDict == <<>>

-----------------------------------------------------------------------------
(* EmailClassifier._extract_features *)

IsTerminator(c) == c \in {".", "!", "?"}

\* character i is the first non-whitespace character of its piece: only whitespace
\* lies between it and the terminator before it (or the start of the text)
PieceStart(s, i) ==
    /\ ~IsSpace(At(s, i))
    /\ ~IsTerminator(At(s, i))
    /\ LET before == {k \in 1..(i - 1) : IsTerminator(At(s, k))}
           from == IF before = {} THEN 1 ELSE (CHOOSE k \in before : \A j \in before : j <= k) + 1
       IN  \A j \in from..(i - 1) : IsSpace(At(s, j))

\* len([s for s in re.split(r'[.!?]+', text) if s.strip()]): the pieces between
\* terminators that hold a non-whitespace character
SentenceCount(s) == Cardinality({i \in 1..Len(s) : PieceStart(s, i)})

\* the features no scorer, risk rule or indicator reads, email_addresses and
\* phone_numbers, are left out of the record
extract_features(text) ==
    LET words == WordCount(text)
        nonspace == Cardinality({i \in 1..Len(text) : ~IsSpace(At(text, i))})
        upper == Cardinality({i \in 1..Len(text) : IsUpper(At(text, i))})
    IN  [char_count |-> Len(text),
         word_count |-> words,
         sentence_count |-> SentenceCount(text),
         avg_word_length |-> Frac(nonspace, IF words > 1 THEN words ELSE 1),
         exclamation_count |-> Count(text, "!"),
         question_count |-> Count(text, "?"),
         caps_ratio |-> Frac(upper, IF Len(text) > 1 THEN Len(text) ELSE 1),
         url_count |-> findall_count(RE_url, text),
         money_mentions |-> findall_count(patterns.money_amounts, text)]

-----------------------------------------------------------------------------
(* EmailClassifier._keyword_classification *)

\* weight * frequency * context_bonus of one keyword, in hundredths
KeywordHit(text, keyword, weight) ==
    IF Contains(text, keyword)
    THEN LET frequency == Count(text, keyword)
             context_bonus == IF WordCount(keyword) > 1 THEN 15 ELSE 10
         IN  weight * frequency * context_bonus
    ELSE 0

RECURSIVE CategoryScore(_, _, _, _)
CategoryScore(text, keywords, weight, i) ==
    IF i > Len(keywords) THEN 0
    ELSE KeywordHit(text, keywords[i], weight) + CategoryScore(text, keywords, weight, i + 1)

\* min(category_score / 20.0, 1.0), category_score in hundredths
KeywordScale(category_score) ==
    LET scaled == (category_score * ONE) \div (100 * 20)
    IN  IF scaled < ONE THEN scaled ELSE ONE

keyword_classification(text) ==
    [c \in Categories |->
        KeywordScale(CategoryScore(text, categories[c].keywords, categories[c].weight, 1))]

-----------------------------------------------------------------------------
(* EmailClassifier._pattern_classification *)

pattern_classification(text) ==
    LET money == re_search(patterns.money_amounts, text, FALSE)
        urgency == re_search(patterns.urgency, text, FALSE)
        exclaim == re_search(patterns.multiple_exclamation, text, FALSE)
        formal == re_search(patterns.business_formal, text, FALSE)
        social == re_search(patterns.social_words, text, FALSE)
        news == \E word \in {"newsletter", "unsubscribe", "edition"} : Contains(text, word)
        add(b, n) == IF b THEN Tenths(n) ELSE 0
    IN  [spam |-> add(money, 4) + add(urgency, 5) + add(exclaim, 3),
         not_spam |-> add(formal, 4),
         promotional |-> add(money, 2) + add(exclaim, 2),
         phishing |-> add(urgency, 6),
         newsletter |-> add(formal, 2) + add(news, 4),
         social |-> add(social, 5)]

-----------------------------------------------------------------------------
(* EmailClassifier._context_classification *)

context_classification(text, f) ==
    LET professional_count ==
            Cardinality({ind \in {"dear", "sincerely", "regards", "best wishes", "thank you"} :
                            Contains(text, ind)})
        social_count ==
            Cardinality({term \in {"notification", "friend", "like", "share", "follow"} :
                            Contains(text, term)})
        \* features['caps_ratio'] > 0.3
        shouting == f.exclamation_count > 5 \/ 10 * f.caps_ratio.num > 3 * f.caps_ratio.den
        add(b, n) == IF b THEN Tenths(n) ELSE 0
    IN  [spam |-> add(shouting, 4) + add(f.money_mentions > 0, 3),
         not_spam |-> IF professional_count >= 2 THEN Tenths(4)
                      ELSE IF professional_count >= 1 THEN Tenths(2) ELSE 0,
         promotional |-> add(f.money_mentions > 0, 2),
         phishing |-> 0,
         newsletter |-> add(f.word_count > 100 /\ Contains(text, "unsubscribe"), 5),
         social |-> add(social_count >= 2, 4)]

-----------------------------------------------------------------------------
(* EmailClassifier._intelligent_score_combination *)

\* keyword * 0.4 + pattern * 0.4 + context * 0.2
Blend(k, p, c) == (k * 4 + p * 4 + c * 2) \div 10

\* FloorRule with the floor forgotten
FloorRuleForgotten(combined) == combined

\* the floor rule: combined['not_spam'] = 0.7 when every score is below 0.2
FloorRule(combined) ==
    IF \A c \in Categories : combined[c] < Tenths(2)
    THEN [combined EXCEPT !["not_spam"] = Tenths(7)]
    ELSE combined

\* Normalize with the division forgotten
NormalizeNoDivision(combined) == ScoreMap(CategoryOrder, combined, ONE)

\* divide by the total when it is positive
Normalize(combined) ==
    LET total == SumOver(combined, Categories)
    IN  IF total > 0 THEN ScoreMap(CategoryOrder, combined, total)
        ELSE ScoreMap(CategoryOrder, combined, ONE)

\* features is a parameter of the source function that its body never reads
intelligent_score_combination(ks, ps, cs, f) ==
    LET combined == [c \in Categories |-> Blend(ks[c], ps[c], cs[c])]
    IN  Normalize(FloorRule(combined))

\* max(final_scores.items(), key=lambda x: x[1])[0]: the first key, in iteration
\* order, whose value no other key exceeds
RECURSIVE ArgMaxFrom(_, _, _)
ArgMaxFrom(scores, i, best) ==
    IF i > Len(scores.keys) THEN best
    ELSE IF scores.num[scores.keys[i]] > scores.num[best]
         THEN ArgMaxFrom(scores, i + 1, scores.keys[i])
         ELSE ArgMaxFrom(scores, i + 1, best)

\* ArgMax with >= for >: the last of several maxima wins
RECURSIVE ArgMaxLastFrom(_, _, _)
ArgMaxLastFrom(scores, i, best) ==
    IF i > Len(scores.keys) THEN best
    ELSE IF scores.num[scores.keys[i]] >= scores.num[best]
         THEN ArgMaxLastFrom(scores, i + 1, scores.keys[i])
         ELSE ArgMaxLastFrom(scores, i + 1, best)

ArgMaxLast(scores) == ArgMaxLastFrom(scores, 2, scores.keys[1])

ArgMax(scores) == ArgMaxFrom(scores, 2, scores.keys[1])

-----------------------------------------------------------------------------
(* EmailClassifier._assess_risk *)

risk_thresholds ==
    [spam |-> [high |-> 70, medium |-> 40, low |-> 0],
     phishing |-> [high |-> 60, medium |-> 30, low |-> 0],
     promotional |-> [high |-> 85, medium |-> 50, low |-> 0],
     not_spam |-> [high |-> 95, medium |-> 80, low |-> 0],
     newsletter |-> [high |-> 90, medium |-> 60, low |-> 0],
     social |-> [high |-> 80, medium |-> 50, low |-> 0]]

\* ThresholdsFor with the category ignored
ThresholdsSpamOnly(category) == risk_thresholds["spam"]

\* risk_thresholds.get(category, risk_thresholds['spam'])
ThresholdsFor(category) ==
    IF category \in DOMAIN risk_thresholds THEN risk_thresholds[category]
    ELSE risk_thresholds["spam"]

\* ConfidencePercent with a confidence of exactly 1 read as a percentage
ConfidencePercentBelowOne(confidence) ==
    IF confidence.num < confidence.den
    THEN Frac(confidence.num * 100, confidence.den)
    ELSE confidence

\* confidence * 100 if confidence <= 1 else confidence
ConfidencePercent(confidence) ==
    IF confidence.num <= confidence.den
    THEN Frac(confidence.num * 100, confidence.den)
    ELSE confidence

\* assess_risk with the comparisons turned round
assess_risk_reversed(category, confidence, f) ==
    LET thresholds == ThresholdsFor(category)
        confidence_percent == ConfidencePercent(confidence)
    IN  IF confidence_percent.num <= thresholds.high * confidence_percent.den THEN "high"
        ELSE IF confidence_percent.num <= thresholds.medium * confidence_percent.den
             THEN "medium"
        ELSE "low"

assess_risk(category, confidence, f) ==
    LET thresholds == ThresholdsFor(category)
        confidence_percent == ConfidencePercent(confidence)
    IN  IF confidence_percent.num >= thresholds.high * confidence_percent.den THEN "high"
        ELSE IF confidence_percent.num >= thresholds.medium * confidence_percent.den
             THEN "medium"
        ELSE "low"

-----------------------------------------------------------------------------
(* EmailClassifier._find_indicators *)

warning_checks ==
    [label \in {"Money Amount", "Urgency Words", "Excessive Caps",
                "Multiple Exclamations", "Suspicious Links"} |->
        CASE label = "Money Amount" -> patterns.money_amounts
          [] label = "Urgency Words" -> patterns.urgency
          [] label = "Excessive Caps" -> patterns.caps_words
          [] label = "Multiple Exclamations" -> patterns.multiple_exclamation
          [] label = "Suspicious Links" -> patterns.suspicious_phrases]

\* find_indicators with re.IGNORECASE forgotten
find_indicators_case_sensitive(text) ==
    {label \in DOMAIN warning_checks : re_search(warning_checks[label], text, FALSE)}
    \cup (IF Count(text, "!") > 5 THEN {"Excessive Punctuation"} ELSE {})
    \cup (IF findall_count(RE_http_url, text) > 2 THEN {"Multiple URLs"} ELSE {})

\* list(set(indicators)): the labels, in no particular order
find_indicators(text) ==
    {label \in DOMAIN warning_checks : re_search(warning_checks[label], text, TRUE)}
    \cup (IF Count(text, "!") > 5 THEN {"Excessive Punctuation"} ELSE {})
    \cup (IF findall_count(RE_http_url, text) > 2 THEN {"Multiple URLs"} ELSE {})

-----------------------------------------------------------------------------
(* EmailClassifier._create_result *)

\* round(score * 100, 1), in tenths of a percent
FormatScore(scores, cat) == RoundHalfEven(scores.num[cat] * 1000, scores.den)

\* entry placed behind every entry whose score is not smaller: what a stable sort
\* with reverse=True does with the entries taken in their original order
RECURSIVE InsertSorted(_, _)
InsertSorted(sorted, entry) ==
    IF sorted = <<>> THEN <<entry>>
    ELSE IF Head(sorted).score >= entry.score
         THEN <<Head(sorted)>> \o InsertSorted(Tail(sorted), entry)
         ELSE <<entry>> \o sorted

RECURSIVE SortScores(_, _)
SortScores(list, n) ==
    IF n = 0 THEN <<>> ELSE InsertSorted(SortScores(list, n - 1), list[n])

\* SortDescending with the sort forgotten
SortForgotten(list) == list

\* formatted_scores.sort(key=lambda x: x['score'], reverse=True)
SortDescending(list) == SortScores(list, Len(list))

\* for cat, score in scores.items(): formatted_scores.append(...)
FormattedScores(scores) ==
    IF scores = EmptyDict THEN <<>>
    ELSE [i \in 1..Len(scores.keys) |->
            [category |-> scores.keys[i], score |-> FormatScore(scores, scores.keys[i])]]

\* the display fields (display_name, color, icon) are left out; confidence is
\* round(confidence * 100, 2) in hundredths of a percent
create_result(category, confidence, scores, inds, f) ==
    [category |-> category,
     confidence |-> RoundHalfEven(confidence.num * 10000, confidence.den),
     scores |-> SortDescending(FormattedScores(scores)),
     risk_level |-> assess_risk(category, confidence, f),
     indicators |-> inds,
     features |-> f]

-----------------------------------------------------------------------------
(* Inputs *)

Handlers == 1..NumHandlers

\* word fragments the input texts are built from
Vocabulary ==
    <<"free", "meeting", "follow", "act now", "sale", "$100", "Wow!!", "regards",
      "newsletter", "verify now", "www.a.b", "hello">>

RECURSIVE Join(_, _)
Join(frags, i) ==
    IF i > Len(frags) THEN ""
    ELSE IF i = Len(frags) THEN Vocabulary[frags[i]]
    ELSE Vocabulary[frags[i]] \o " " \o Join(frags, i + 1)

FragTexts ==
    UNION {{Join(fs, 1) : fs \in [1..n -> 1..Len(Vocabulary)]} : n \in 1..MaxFrags}

\* the sample of the specification's testable properties
SampleSpam ==
    "URGENT! CONGRATULATIONS! You have won $1,000,000 in our lottery! Click here immediately! ACT NOW!"

SampleNotSpam ==
    "Dear John, I hope this finds you well. Following up on our project meeting regarding the quarterly timeline. Best regards, Sarah"

\* the not_spam sample of routes.get_sample_email: 58 words
SampleLong ==
    "Dear John,\n\nI hope this email finds you well. I wanted to follow up on our project meeting yesterday regarding the quarterly timeline and resource allocation.\n\nCould we schedule a brief call this week to discuss the next steps? I'm available Thursday or Friday afternoon.\n\nPlease let me know your availability.\n\nBest regards,\nSarah Smith\nProject Manager"

Samples ==
    {SampleSpam,
     SampleNotSpam,
     SampleLong,
     "meeting act now follow",
     "hi",
     "www.a.b www.c.d www.e.f",
     "http://a.b https://c.d http://e.f"}

BlankTexts == {"", " ", " \n\t "}

Texts == FragTexts \cup Samples

\* request.get_json() of a request to /analyze
Body(kind, content) == [kind |-> kind, content |-> content]

NoRequest == Body("no_request", "")

Bodies ==
    {Body(k, "") : k \in {"none", "empty_object", "no_email_content", "null_email_content"}}
    \cup {Body("email_content", t) : t \in BlankTexts \cup Samples}
    \cup {Body("email_content", " " \o t \o "\n") : t \in Samples}
    \cup {Body("email_content", Vocabulary[i]) : i \in 1..Len(Vocabulary)}

\* the inputs of the concurrent specification
ConcTexts == {"", "free sale", "meeting act now follow"}

ConcBodies == {Body("none", ""), Body("email_content", " free sale now \n")}

-----------------------------------------------------------------------------
(* State *)

Locals(h) ==
    /\ features' = [features EXCEPT ![h] = EmptyDict]
    /\ keyword_scores' = [keyword_scores EXCEPT ![h] = EmptyDict]
    /\ pattern_scores' = [pattern_scores EXCEPT ![h] = EmptyDict]
    /\ context_scores' = [context_scores EXCEPT ![h] = EmptyDict]
    /\ final_scores' = [final_scores EXCEPT ![h] = EmptyDict]
    /\ primary' = [primary EXCEPT ![h] = EmptyDict]
    /\ indicators' = [indicators EXCEPT ![h] = {}]

NoProbe == [category |-> "", c1 |-> Frac(0, 1), c2 |-> Frac(0, 1), t1 |-> "", t2 |-> ""]

Init ==
    /\ categories = InitCategories
    /\ patterns = InitPatterns
    /\ pc = [h \in Handlers |-> "idle"]
    /\ data = [h \in Handlers |-> NoRequest]
    /\ email_text = [h \in Handlers |-> ""]
    /\ features = [h \in Handlers |-> EmptyDict]
    /\ keyword_scores = [h \in Handlers |-> EmptyDict]
    /\ pattern_scores = [h \in Handlers |-> EmptyDict]
    /\ context_scores = [h \in Handlers |-> EmptyDict]
    /\ final_scores = [h \in Handlers |-> EmptyDict]
    /\ primary = [h \in Handlers |-> EmptyDict]
    /\ indicators = [h \in Handlers |-> {}]
    /\ result = [h \in Handlers |-> EmptyDict]
    /\ response = [h \in Handlers |-> EmptyDict]
    /\ ran = [h \in Handlers |-> {}]
    /\ probe = NoProbe

tables == <<categories, patterns>>
locals == <<features, keyword_scores, pattern_scores, context_scores, final_scores,
            primary, indicators>>

-----------------------------------------------------------------------------
(* routes.analyze_email: the /analyze request handler *)

\* a POST to /analyze arrives; data = request.get_json()
Receive(h, body) ==
    /\ pc[h] = "idle"
    /\ pc' = [pc EXCEPT ![h] = "route"]
    /\ data' = [data EXCEPT ![h] = body]
    /\ UNCHANGED <<tables, locals, email_text, result, response, ran, probe>>

Reply(status, body) == [status |-> status, body |-> body]

\* RouteCheck with the length check forgotten
RouteCheckNoLength(d) ==
    IF d.kind \in {"none", "empty_object"} THEN Reply(400, "No data provided")
    ELSE IF d.kind = "null_email_content" THEN Reply(500, "Analysis failed")
    ELSE IF Strip(d.content) = "" THEN Reply(400, "Email content cannot be empty")
    ELSE Reply(0, "call")

\* the checks of the route, in their order: the reply they end in, or "call"
RouteCheck(d) ==
    IF d.kind \in {"none", "empty_object"} THEN Reply(400, "No data provided")
    \* data.get('email_content', '') is None: None has no strip(), and the
    \* AttributeError is caught by the except clause
    ELSE IF d.kind = "null_email_content" THEN Reply(500, "Analysis failed")
    ELSE IF Strip(d.content) = "" THEN Reply(400, "Email content cannot be empty")
    ELSE IF Len(Strip(d.content)) < 10
         THEN Reply(400, "Email content too short for meaningful analysis")
    ELSE Reply(0, "call")

\* the route up to the call of the classifier
Validate(h) ==
    /\ pc[h] = "route"
    /\ LET check == RouteCheck(data[h])
       IN  IF check.status # 0
           THEN /\ response' = [response EXCEPT ![h] = check]
                /\ pc' = [pc EXCEPT ![h] = "replied"]
                /\ UNCHANGED email_text
           ELSE /\ email_text' = [email_text EXCEPT ![h] = Strip(data[h].content)]
                /\ pc' = [pc EXCEPT ![h] = "call"]
                /\ UNCHANGED response
    /\ UNCHANGED <<tables, locals, data, result, ran, probe>>

\* jsonify({'success': True, 'result': analysis_result})
Respond(h) ==
    /\ pc[h] = "return"
    /\ data[h] # NoRequest
    /\ response' = [response EXCEPT ![h] = Reply(200, result[h])]
    /\ pc' = [pc EXCEPT ![h] = "replied"]
    /\ UNCHANGED <<tables, locals, data, email_text, result, ran, probe>>

-----------------------------------------------------------------------------
(* EmailClassifier.analyze_email *)

\* a caller other than the route calls email_classifier.analyze_email(text)
Call(h, text) ==
    /\ pc[h] = "idle"
    /\ pc' = [pc EXCEPT ![h] = "call"]
    /\ email_text' = [email_text EXCEPT ![h] = text]
    /\ UNCHANGED <<tables, locals, data, result, response, ran, probe>>

\* IsBlank with the strip() test forgotten
IsBlankNoStrip(text) == text = ""

\* not email_text or not email_text.strip()
IsBlank(text) == text = "" \/ Strip(text) = ""

\* the blank check, and the cleaning of the text
Analyze(h) ==
    /\ pc[h] = "call"
    /\ IF IsBlank(email_text[h])
       THEN /\ result' = [result EXCEPT ![h] =
                            create_result("unknown", Frac(0, 1), EmptyDict, {}, EmptyDict)]
            /\ ran' = [ran EXCEPT ![h] = {"analyze_email", "_create_result", "_assess_risk"}]
            /\ pc' = [pc EXCEPT ![h] = "return"]
       ELSE /\ ran' = [ran EXCEPT ![h] = {"analyze_email", "_clean_text"}]
            /\ pc' = [pc EXCEPT ![h] = "extract"]
            /\ UNCHANGED result
    /\ UNCHANGED <<tables, locals, data, email_text, response, probe>>

ExtractFeatures(h) ==
    /\ pc[h] = "extract"
    /\ features' = [features EXCEPT ![h] = extract_features(email_text[h])]
    /\ ran' = [ran EXCEPT ![h] = @ \cup {"_extract_features"}]
    /\ pc' = [pc EXCEPT ![h] = "keyword"]
    /\ UNCHANGED <<tables, keyword_scores, pattern_scores, context_scores, final_scores,
                   primary, indicators, data, email_text, result, response, probe>>

\* KeywordClassification that also writes to the shared table: the spam weight is
\* halved in place once the keywords have been scored
KeywordClassificationInPlace(h) ==
    /\ pc[h] = "keyword"
    /\ keyword_scores' =
          [keyword_scores EXCEPT ![h] = keyword_classification(clean_text(email_text[h]))]
    /\ categories' = [categories EXCEPT !["spam"].weight = 15]
    /\ ran' = [ran EXCEPT ![h] = @ \cup {"_keyword_classification"}]
    /\ pc' = [pc EXCEPT ![h] = "pattern"]
    /\ UNCHANGED <<patterns, features, pattern_scores, context_scores, final_scores,
                   primary, indicators, data, email_text, result, response, probe>>

KeywordClassification(h) ==
    /\ pc[h] = "keyword"
    /\ keyword_scores' =
          [keyword_scores EXCEPT ![h] = keyword_classification(clean_text(email_text[h]))]
    /\ ran' = [ran EXCEPT ![h] = @ \cup {"_keyword_classification"}]
    /\ pc' = [pc EXCEPT ![h] = "pattern"]
    /\ UNCHANGED <<tables, features, pattern_scores, context_scores, final_scores,
                   primary, indicators, data, email_text, result, response, probe>>

PatternClassification(h) ==
    /\ pc[h] = "pattern"
    /\ pattern_scores' =
          [pattern_scores EXCEPT ![h] = pattern_classification(Lower(email_text[h]))]
    /\ ran' = [ran EXCEPT ![h] = @ \cup {"_pattern_classification"}]
    /\ pc' = [pc EXCEPT ![h] = "context"]
    /\ UNCHANGED <<tables, features, keyword_scores, context_scores, final_scores,
                   primary, indicators, data, email_text, result, response, probe>>

ContextClassification(h) ==
    /\ pc[h] = "context"
    /\ context_scores' =
          [context_scores EXCEPT ![h] =
              context_classification(Lower(email_text[h]), features[h])]
    /\ ran' = [ran EXCEPT ![h] = @ \cup {"_context_classification"}]
    /\ pc' = [pc EXCEPT ![h] = "combine"]
    /\ UNCHANGED <<tables, features, keyword_scores, pattern_scores, final_scores,
                   primary, indicators, data, email_text, result, response, probe>>

CombineScores(h) ==
    /\ pc[h] = "combine"
    /\ final_scores' =
          [final_scores EXCEPT ![h] =
              intelligent_score_combination(keyword_scores[h], pattern_scores[h],
                                            context_scores[h], features[h])]
    /\ ran' = [ran EXCEPT ![h] = @ \cup {"_intelligent_score_combination"}]
    /\ pc' = [pc EXCEPT ![h] = "select"]
    /\ UNCHANGED <<tables, features, keyword_scores, pattern_scores, context_scores,
                   primary, indicators, data, email_text, result, response, probe>>

\* primary_category and confidence
SelectPrimary(h) ==
    /\ pc[h] = "select"
    /\ LET primary_category == ArgMax(final_scores[h])
       IN  primary' = [primary EXCEPT ![h] =
                          [category |-> primary_category,
                           confidence |-> Frac(final_scores[h].num[primary_category],
                                               final_scores[h].den)]]
    /\ pc' = [pc EXCEPT ![h] = "indicators"]
    /\ UNCHANGED <<tables, features, keyword_scores, pattern_scores, context_scores,
                   final_scores, indicators, data, email_text, result, response, ran, probe>>

FindIndicators(h) ==
    /\ pc[h] = "indicators"
    /\ indicators' = [indicators EXCEPT ![h] = find_indicators(email_text[h])]
    /\ ran' = [ran EXCEPT ![h] = @ \cup {"_find_indicators"}]
    /\ pc' = [pc EXCEPT ![h] = "create"]
    /\ UNCHANGED <<tables, features, keyword_scores, pattern_scores, context_scores,
                   final_scores, primary, data, email_text, result, response, probe>>

CreateResult(h) ==
    /\ pc[h] = "create"
    /\ result' = [result EXCEPT ![h] =
                     create_result(primary[h].category, primary[h].confidence,
                                   final_scores[h], indicators[h], features[h])]
    /\ ran' = [ran EXCEPT ![h] = @ \cup {"_create_result", "_assess_risk"}]
    /\ pc' = [pc EXCEPT ![h] = "return"]
    /\ UNCHANGED <<tables, locals, data, email_text, response, probe>>

\* analyze_email returns to a caller other than the route
Return(h) ==
    /\ pc[h] = "return"
    /\ data[h] = NoRequest
    /\ pc' = [pc EXCEPT ![h] = "done"]
    /\ UNCHANGED <<tables, locals, data, email_text, result, response, ran, probe>>

\* the handler is free again: the locals of the finished call are dropped
Finish(h) ==
    /\ pc[h] \in {"done", "replied"}
    /\ pc' = [pc EXCEPT ![h] = "idle"]
    /\ data' = [data EXCEPT ![h] = NoRequest]
    /\ email_text' = [email_text EXCEPT ![h] = ""]
    /\ result' = [result EXCEPT ![h] = EmptyDict]
    /\ response' = [response EXCEPT ![h] = EmptyDict]
    /\ ran' = [ran EXCEPT ![h] = {}]
    /\ Locals(h)
    /\ UNCHANGED <<tables, probe>>

-----------------------------------------------------------------------------
(* A direct call of EmailClassifier._assess_risk *)

\* denominator of the confidence values handed to _assess_risk
ConfDen == 20

\* fractions 0 .. 1 in steps of 1/ConfDen, and percentages 5 .. 100 in steps of 5
ConfValues ==
    {Frac(n, ConfDen) : n \in 0..ConfDen} \cup {Frac(5 * p * ConfDen, ConfDen) : p \in 1..20}

\* c1 <= c2, both over ConfDen
ProbeInputs ==
    UNION {{[category |-> cat, c1 |-> a, c2 |-> b, t1 |-> "", t2 |-> ""] :
               cat \in Categories \cup {"unknown"},
               b \in {x \in ConfValues : x.num >= a.num}} :
           a \in ConfValues}

SetProbe(p) ==
    /\ probe = NoProbe
    /\ probe' = p
    /\ UNCHANGED <<tables, locals, pc, data, email_text, result, response, ran>>

AssessProbe ==
    /\ probe # NoProbe
    /\ probe.t1 = ""
    /\ probe' = [probe EXCEPT !.t1 = assess_risk(probe.category, probe.c1, EmptyDict),
                              !.t2 = assess_risk(probe.category, probe.c2, EmptyDict)]
    /\ UNCHANGED <<tables, locals, pc, data, email_text, result, response, ran>>

-----------------------------------------------------------------------------
(* Specifications *)

Step(h) ==
    \/ Validate(h)
    \/ Respond(h)
    \/ Analyze(h)
    \/ ExtractFeatures(h)
    \/ KeywordClassification(h)
    \/ PatternClassification(h)
    \/ ContextClassification(h)
    \/ CombineScores(h)
    \/ SelectPrimary(h)
    \/ FindIndicators(h)
    \/ CreateResult(h)
    \/ Return(h)
    \/ Finish(h)

\* one handler at a time, over every input text
Next ==
    \/ \E body \in Bodies : Receive(1, body)
    \/ \E text \in BlankTexts \cup Texts : Call(1, text)
    \/ Step(1)

Spec == Init /\ [][Next]_vars

\* NumHandlers handlers interleaved on the shared classifier
NextConc ==
    \E h \in Handlers :
        \/ \E body \in ConcBodies : Receive(h, body)
        \/ \E text \in ConcTexts : Call(h, text)
        \/ Step(h)

SpecConc == Init /\ [][NextConc]_vars

\* _assess_risk called on its own with a category and two confidence values
NextRisk ==
    \/ \E p \in ProbeInputs : SetProbe(p)
    \/ AssessProbe

SpecRisk == Init /\ [][NextRisk]_vars

-----------------------------------------------------------------------------
(* Properties *)

\* analyze_email has returned a result to handler h
HasResult(h) == result[h] # EmptyDict

\* the text consists of whitespace only, or is empty
BlankInput(text) == \A i \in 1..Len(text) : SubSeq(text, i, i) \in SpaceSet

NonBlankResult(h) == HasResult(h) /\ ~BlankInput(email_text[h])

RECURSIVE ScoreSumFrom(_, _)
ScoreSumFrom(list, i) ==
    IF i > Len(list) THEN 0 ELSE list[i].score + ScoreSumFrom(list, i + 1)

\* the sum of the 'score' values of a 'scores' list, in tenths of a percent
ScoreSum(list) == ScoreSumFrom(list, 1)

\* C1 as stated: for every non-blank input the six 'score' values of the result add
\* up to a value between 99.9 and 100.1.
C1_ScoresSumWithinOneTenth ==
    \A h \in Handlers :
        NonBlankResult(h) =>
            /\ ScoreSum(result[h].scores) >= 999
            /\ ScoreSum(result[h].scores) <= 1001

\* C1 amended: for every non-blank input the six 'score' values of the result, each
\* rounded to one decimal on its own, add up to a value between 99.7 and 100.3.
C1_ScoresSumWithinThreeTenths ==
    \A h \in Handlers :
        NonBlankResult(h) =>
            /\ Len(result[h].scores) = 6
            /\ ScoreSum(result[h].scores) >= 997
            /\ ScoreSum(result[h].scores) <= 1003

\* a result whose scores add up to 99.8
C1_Witness ==
    \E h \in Handlers : NonBlankResult(h) /\ ScoreSum(result[h].scores) = 998

\* C2 as stated: the spam sample is classified spam with risk high, and its indicators
\* include Money Amount, Urgency Words and Multiple Exclamations.
C2_SampleSpamHighRisk ==
    \A h \in Handlers :
        (HasResult(h) /\ email_text[h] = SampleSpam) =>
            /\ result[h].category = "spam"
            /\ result[h].risk_level = "high"
            /\ {"Money Amount", "Urgency Words", "Multiple Exclamations"}
                  \subseteq result[h].indicators

\* C2 amended: the spam sample is classified spam with risk medium (confidence 58.97
\* is below the spam high threshold of 70); its indicators include Money Amount and
\* Urgency Words but not Multiple Exclamations (no two exclamation marks are adjacent).
C2_SampleSpamMediumRisk ==
    \A h \in Handlers :
        (HasResult(h) /\ email_text[h] = SampleSpam) =>
            /\ result[h].category = "spam"
            /\ result[h].confidence = 5897
            /\ result[h].risk_level = "medium"
            /\ {"Money Amount", "Urgency Words"} \subseteq result[h].indicators
            /\ "Multiple Exclamations" \notin result[h].indicators

C2_Witness ==
    \E h \in Handlers : HasResult(h) /\ email_text[h] = SampleSpam

\* the components a blank text must not reach
Pipeline ==
    {"_extract_features", "_keyword_classification", "_pattern_classification",
     "_context_classification", "_intelligent_score_combination", "_find_indicators"}

\* C3: for an empty or whitespace-only text analyze_email returns category unknown,
\* confidence 0.0, no indicators, no features and no scores, and neither feature
\* extraction nor a scorer, the combiner or the indicator finder runs for it.
C3_BlankShortCircuits ==
    \A h \in Handlers :
        /\ (pc[h] \notin {"idle", "route", "replied"} /\ BlankInput(email_text[h])) =>
              /\ pc[h] \in {"call", "return", "done"}
              /\ ran[h] \cap Pipeline = {}
        /\ (HasResult(h) /\ BlankInput(email_text[h])) =>
              /\ result[h].category = "unknown"
              /\ result[h].confidence = 0
              /\ result[h].indicators = {}
              /\ result[h].features = EmptyDict
              /\ result[h].scores = <<>>

\* a whitespace-only text has been answered
C3_Witness ==
    \E h \in Handlers :
        HasResult(h) /\ email_text[h] # "" /\ BlankInput(email_text[h])

TierRank(tier) == CASE tier = "low" -> 0 [] tier = "medium" -> 1 [] tier = "high" -> 2

\* c is read as a fraction (c <= 1), not as a percentage
IsFraction(c) == c.num <= c.den

ClaimHigh(category) ==
    CASE category = "spam" -> 70 [] category = "phishing" -> 60
      [] category = "promotional" -> 85 [] category = "not_spam" -> 95
      [] category = "newsletter" -> 90 [] category = "social" -> 80
      [] OTHER -> 70

ClaimMedium(category) ==
    CASE category = "spam" -> 40 [] category = "phishing" -> 30
      [] category = "promotional" -> 50 [] category = "not_spam" -> 80
      [] category = "newsletter" -> 60 [] category = "social" -> 50
      [] OTHER -> 40

\* the confidence of the winning category as a fraction; 0 for a blank text
WinningConfidence(h) ==
    IF primary[h] = EmptyDict THEN Frac(0, 1) ELSE primary[h].confidence

\* C5: in every result risk_level is high when the confidence percentage of the
\* winning category reaches the category's high threshold, else medium when it
\* reaches the medium threshold, else low; unknown is assessed as spam.
C5_RiskFollowsTable ==
    \A h \in Handlers :
        HasResult(h) =>
            LET c == WinningConfidence(h)
                cat == result[h].category
            IN  result[h].risk_level =
                    IF c.num * 100 >= ClaimHigh(cat) * c.den THEN "high"
                    ELSE IF c.num * 100 >= ClaimMedium(cat) * c.den THEN "medium"
                    ELSE "low"

\* a not_spam result whose confidence the spam thresholds would rate differently
C5_Witness ==
    \E h \in Handlers :
        /\ HasResult(h)
        /\ result[h].category = "not_spam"
        /\ result[h].confidence >= 4000
        /\ result[h].confidence < 8000
        /\ result[h].risk_level = "low"

\* position of a category in the declaration order
OrderOf(cat) == CHOOSE i \in 1..Len(CategoryOrder) : CategoryOrder[i] = cat

\* C6: for every non-blank input the category of the result has the maximal combined
\* score, every category declared before it has a smaller score, and the confidence is
\* that score as a percentage rounded to two decimals.
C6_CategoryIsFirstMaximum ==
    \A h \in Handlers :
        NonBlankResult(h) =>
            LET fs == final_scores[h]
                cat == result[h].category
            IN  /\ cat \in Categories
                /\ \A c \in Categories : fs.num[c] <= fs.num[cat]
                /\ \A c \in Categories : OrderOf(c) < OrderOf(cat) => fs.num[c] < fs.num[cat]
                /\ 2 * (result[h].confidence * fs.den - fs.num[cat] * 10000) <= fs.den
                /\ 2 * (fs.num[cat] * 10000 - result[h].confidence * fs.den) <= fs.den

\* two categories share the maximal score
C6_Witness ==
    \E h \in Handlers :
        /\ NonBlankResult(h)
        /\ \E c \in Categories :
              /\ c # result[h].category
              /\ final_scores[h].num[c] = final_scores[h].num[result[h].category]

\* C7: two calls of analyze_email with the same text return the same category,
\* confidence, risk_level and indicators however the calls of the handlers interleave,
\* and no call changes the categories or patterns tables.
C7_ResultDependsOnTextOnly ==
    /\ categories = InitCategories
    /\ patterns = InitPatterns
    /\ \A h1, h2 \in Handlers :
          (HasResult(h1) /\ HasResult(h2) /\ email_text[h1] = email_text[h2]) =>
              /\ result[h1].category = result[h2].category
              /\ result[h1].confidence = result[h2].confidence
              /\ result[h1].risk_level = result[h2].risk_level
              /\ result[h1].indicators = result[h2].indicators

\* two handlers hold results for the same non-blank text
C7_Witness ==
    \E h1, h2 \in Handlers :
        /\ h1 # h2
        /\ NonBlankResult(h1) /\ NonBlankResult(h2)
        /\ email_text[h1] = email_text[h2]

\* handler h serves a request to /analyze
InRoute(h) == data[h] # NoRequest

\* number of characters of the text between its first and last non-whitespace one
StrippedLen(text) ==
    LET kept == {i \in 1..Len(text) : SubSeq(text, i, i) \notin SpaceSet}
    IN  IF kept = {} THEN 0
        ELSE (CHOOSE i \in kept : \A j \in kept : j <= i)
             - (CHOOSE i \in kept : \A j \in kept : i <= j) + 1

\* the request carries email_content that is at least 10 characters long when stripped
Analyzable(d) == d.kind = "email_content" /\ StrippedLen(d.content) >= 10

\* the request has no body, no email_content, or email_content that is blank or short
Rejectable(d) ==
    \/ d.kind \in {"none", "empty_object", "no_email_content"}
    \/ d.kind = "email_content" /\ StrippedLen(d.content) < 10

\* C8: the route calls the classifier only for email_content of at least 10 characters
\* after stripping; a request without body or email_content, or with blank or shorter
\* email_content, is answered 400 and the classifier is not called.
C8_RouteRejectsBeforeClassifier ==
    \A h \in Handlers :
        InRoute(h) =>
            /\ (pc[h] \notin {"route", "replied"} \/ ran[h] # {} \/ HasResult(h))
                  => Analyzable(data[h])
            /\ (pc[h] = "replied" /\ Rejectable(data[h])) =>
                  /\ response[h].status = 400
                  /\ ran[h] = {}
                  /\ ~HasResult(h)

\* a request with short email_content has been answered
C8_Witness ==
    \E h \in Handlers :
        /\ pc[h] = "replied"
        /\ data[h].kind = "email_content"
        /\ StrippedLen(data[h].content) > 0
        /\ StrippedLen(data[h].content) < 10
        /\ response[h].status = 400

\* C9: for every non-blank input the 'scores' list names each of the six categories
\* exactly once and no entry has a greater score than the entry before it.
C9_ScoresSortedDescending ==
    \A h \in Handlers :
        NonBlankResult(h) =>
            LET list == result[h].scores
            IN  /\ Len(list) = 6
                /\ \A c \in Categories :
                      Cardinality({i \in 1..Len(list) : list[i].category = c}) = 1
                /\ \A i \in 1..(Len(list) - 1) : list[i].score >= list[i + 1].score

\* a result whose list is not in declaration order
C9_Witness ==
    \E h \in Handlers :
        /\ NonBlankResult(h)
        /\ result[h].scores[1].category = "social"
        /\ result[h].scores[1].score > result[h].scores[2].score
        /\ result[h].scores[2].score > result[h].scores[3].score

\* the blend of the claim, in tenths of the model's score unit: the weighted sum, then
\* the three multipliers
ClaimAdjusted(ks, ps, cs, f) ==
    [c \in Categories |->
        LET blend == Blend(ks[c], ps[c], cs[c])
        IN  CASE c = "spam" /\ f.word_count < 20 /\ f.exclamation_count > 3 -> blend * 15
              [] c = "not_spam" /\ f.word_count > 50 /\ f.exclamation_count <= 2 -> blend * 13
              [] c = "newsletter" /\ f.word_count > 80 -> blend * 12
              [] OTHER -> blend * 10]

\* then the floor rule and the normalization, as the claim orders them
ClaimCombination(ks, ps, cs, f) ==
    LET adjusted == ClaimAdjusted(ks, ps, cs, f)
        floored == IF \A c \in Categories : adjusted[c] < 10 * Tenths(2)
                   THEN [adjusted EXCEPT !["not_spam"] = 10 * Tenths(7)]
                   ELSE adjusted
    IN  ScoreMap(CategoryOrder, floored, SumOver(floored, Categories))

\* C10: the combiner multiplies the blended spam score by 1.5 when word_count < 20 and
\* exclamation_count > 3, the not_spam score by 1.3 when word_count > 50 and
\* exclamation_count <= 2, and the newsletter score by 1.2 when word_count > 80, before
\* the floor rule and the normalization.
C10_ContextualMultipliersApplied ==
    \A h \in Handlers :
        final_scores[h] # EmptyDict =>
            LET claimed == ClaimCombination(keyword_scores[h], pattern_scores[h],
                                            context_scores[h], features[h])
            IN  \A c \in Categories :
                    final_scores[h].num[c] * claimed.den = claimed.num[c] * final_scores[h].den

\* the weighted blend of a call's three score maps, before the floor rule
Blended(h) ==
    [c \in Categories |-> Blend(keyword_scores[h][c], pattern_scores[h][c], context_scores[h][c])]

\* every blended score of the call is below 0.2: the case of the floor rule
AllBelowFloor(h) == \A c \in Categories : Blended(h)[c] < Tenths(2)

\* C11: for every keyword, pattern and context score map the scorers produce, the map
\* the combiner returns has values that sum to 1 and is never all-zero; the total it
\* divides by is greater than zero (not_spam is 0.7 whenever every blended score is
\* below 0.2, and some score is at least 0.2 otherwise), so the division is never
\* skipped.
C11_CombinedSumsToOne ==
    \A h \in Handlers :
        final_scores[h] # EmptyDict =>
            /\ \A c \in Categories : Blended(h)[c] >= 0
            /\ final_scores[h].den > 0
            /\ final_scores[h].den =
                  (IF AllBelowFloor(h)
                   THEN SumOver(Blended(h), Categories \ {"not_spam"}) + Tenths(7)
                   ELSE SumOver(Blended(h), Categories))
            /\ SumOver(final_scores[h].num, Categories) = final_scores[h].den
            /\ \E c \in Categories : final_scores[h].num[c] > 0
            /\ AllBelowFloor(h) => final_scores[h].num["not_spam"] = Tenths(7)

\* the combiner has returned for a call on which the floor rule fired beside a
\* non-zero score of another category
C11_Witness ==
    \E h \in Handlers :
        /\ final_scores[h] # EmptyDict
        /\ AllBelowFloor(h)
        /\ \E c \in Categories \ {"not_spam"} : final_scores[h].num[c] > 0

\* C12: in every result for non-blank input the indicators contain 'Multiple URLs'
\* exactly when the url_count feature reported in the same result exceeds 2.
C12_MultipleUrlsIffUrlCount ==
    \A h \in Handlers :
        NonBlankResult(h) =>
            (("Multiple URLs" \in result[h].indicators) <=> (result[h].features.url_count > 2))

\* no signal fired in the call: every category's keyword, pattern and context score is 0
NoSignal(h) ==
    /\ keyword_scores[h] # EmptyDict
    /\ pattern_scores[h] # EmptyDict
    /\ context_scores[h] # EmptyDict
    /\ \A c \in Categories :
          /\ keyword_scores[h][c] = 0
          /\ pattern_scores[h][c] = 0
          /\ context_scores[h][c] = 0

\* C13: for every non-blank input on which no signal fires, the result has category
\* not_spam, confidence 100.0 and risk_level high: not_spam is the only non-zero
\* score after the floor rule, the normalization makes it 1, and 100 reaches the
\* not_spam high threshold of 95.
C13_NoSignalIsNotSpamHigh ==
    \A h \in Handlers :
        (NonBlankResult(h) /\ NoSignal(h)) =>
            /\ \A c \in Categories :
                  final_scores[h].num[c] = (IF c = "not_spam" THEN final_scores[h].den ELSE 0)
            /\ result[h].category = "not_spam"
            /\ result[h].confidence = 10000
            /\ result[h].risk_level = "high"

\* the result of a call on a text of more than one word in which no signal fired
C13_Witness ==
    \E h \in Handlers :
        /\ NonBlankResult(h)
        /\ NoSignal(h)
        /\ result[h].features.word_count > 1
        /\ result[h].indicators = {}

====
